---- MODULE Spec2Model ----
(***************************************************************************)
(* Model of core/slide_generator.py: the response extractor                *)
(* (parse_json_from_response), the structure generator                     *)
(* (generate_slide_structure), the lead-in lookahead of                    *)
(* generate_slide_content and the batch loop create_slides_with_content.   *)
(*                                                                         *)
(* Text is modelled as a sequence of lexemes.  A lexeme is a record        *)
(* [k |-> kind, v |-> spelling, n |-> number]; the two markers, the four brackets, the   *)
(* comma, white space and prose are the lexemes the regular expressions    *)
(* of the extractor can tell apart, the others are JSON literals.          *)
(***************************************************************************)
EXTENDS Integers, Sequences, FiniteSets, TLC

\* ------------------------------------------------------------------ bounds
MaxParts == 4
MaxSlides == 3

\* ----------------------------------------------------------------- lexemes
Tok(k, v) == [k |-> k, v |-> v, n |-> 0]

START == Tok("mark", "START OF JSON")
END == Tok("mark", "END OF JSON")
LB == Tok("p", "{")
RB == Tok("p", "}")
LK == Tok("p", "[")
RK == Tok("p", "]")
COMMA == Tok("p", ",")
WS == Tok("ws", " ")
PROSE == Tok("prose", "x")
NULL == Tok("null", "null")
TRUE_ == Tok("bool", "true")
FALSE_ == Tok("bool", "false")
NUM(n) == [k |-> "num", v |-> "", n |-> n]
STR(s) == Tok("str", s)
\* a string literal with a raw control character inside (a literal newline)
RAWSTR(s) == Tok("rawstr", s)
\* an object key with its colon:  "name":
KEY(s) == Tok("key", s)

\* A response is text, or the None a completion without content carries.
Text(toks) == [isStr |-> TRUE, toks |-> toks]
NoneText == [isStr |-> FALSE, toks |-> <<>>]

\* ------------------------------------------------------------- JSON values
\* one shape for every value: s is the text of a string (or true/false),
\* n the number, keys and elems the members of a mapping, elems the
\* elements of a list
JV(tag, s, n, keys, elems) ==
  [tag |-> tag, s |-> s, n |-> n, keys |-> keys, elems |-> elems]
JNum(n) == JV("num", "", n, <<>>, <<>>)
JStr(s) == JV("str", s, 0, <<>>, <<>>)
JBool(s) == JV("bool", s, 0, <<>>, <<>>)
JNull == JV("null", "", 0, <<>>, <<>>)
JList(elems) == JV("list", "", 0, <<>>, elems)
JDict(keys, elems) == JV("dict", "", 0, keys, elems)
EmptyDict == JDict(<<>>, <<>>)

IsDict(v) == v.tag = "dict"
IsList(v) == v.tag = "list"

KeyIndex(d, key) ==
  IF \E n \in 1..Len(d.keys) : d.keys[n] = key
  THEN CHOOSE n \in 1..Len(d.keys) : d.keys[n] = key
  ELSE 0

HasKey(d, key) == KeyIndex(d, key) # 0

\* dict.get(key, default)
Get(d, key, default) ==
  IF HasKey(d, key) THEN d.elems[KeyIndex(d, key)] ELSE default

\* d[key] = val : a present key keeps its place, a new key goes last
Put(d, key, val) ==
  IF HasKey(d, key)
  THEN JDict(d.keys, [d.elems EXCEPT ![KeyIndex(d, key)] = val])
  ELSE JDict(Append(d.keys, key), Append(d.elems, val))

\* ---------------------------------------------------- str.strip, re.search
RECURSIVE LStrip(_)
LStrip(toks) ==
  IF toks # <<>> /\ Head(toks) = WS THEN LStrip(Tail(toks)) ELSE toks

RECURSIVE RStrip(_)
RStrip(toks) ==
  IF toks # <<>> /\ toks[Len(toks)] = WS
  THEN RStrip(SubSeq(toks, 1, Len(toks) - 1))
  ELSE toks

Strip(toks) == RStrip(LStrip(toks))

\* index of the first occurrence of tok at or after from, 0 when none
FirstIdx(toks, tok, from) ==
  IF \E n \in from..Len(toks) : toks[n] = tok
  THEN CHOOSE n \in from..Len(toks) :
         toks[n] = tok /\ \A m \in from..(n - 1) : toks[m] # tok
  ELSE 0

\* index of the last occurrence of tok at or after from, 0 when none
LastIdx(toks, tok, from) ==
  IF \E n \in from..Len(toks) : toks[n] = tok
  THEN CHOOSE n \in from..Len(toks) :
         toks[n] = tok /\ \A m \in (n + 1)..Len(toks) : toks[m] # tok
  ELSE 0

NoMatch == [found |-> FALSE, group |-> <<>>]
Match(g) == [found |-> TRUE, group |-> g]

\* the group taken greedily, up to the last END marker
MarkerMatch_Greedy(toks) ==
  LET a == FirstIdx(toks, START, 1)
      b == IF a = 0 THEN 0 ELSE LastIdx(toks, END, a + 1)
  IN IF a = 0 \/ b = 0 THEN [found |-> FALSE, group |-> <<>>]
     ELSE [found |-> TRUE, group |-> Strip(SubSeq(toks, a + 1, b - 1))]

\* re.search(r'START OF JSON\s*([\s\S]*?)\s*END OF JSON', text):
\* the leftmost START marker that has an END marker after it, up to the
\* nearest END marker; the lazy group loses the white space around it.
MarkerMatch(toks) ==
  LET a == FirstIdx(toks, START, 1)
      b == IF a = 0 THEN 0 ELSE FirstIdx(toks, END, a + 1)
  IN IF a = 0 \/ b = 0 THEN NoMatch
     ELSE Match(Strip(SubSeq(toks, a + 1, b - 1)))

\* re.search of a greedy  open .* close  with DOTALL: the leftmost open
\* bracket that has a close bracket after it, up to the last close bracket.
SpanMatch(toks, open, close) ==
  LET a == FirstIdx(toks, open, 1)
      b == IF a = 0 THEN 0 ELSE LastIdx(toks, close, a + 1)
  IN IF a = 0 \/ b = 0 THEN NoMatch
     ELSE Match(SubSeq(toks, a, b))

ObjectMatch(toks) == SpanMatch(toks, LB, RB)
ArrayMatch(toks) == SpanMatch(toks, LK, RK)

\* -------------------------------------------------------------- json.loads
PFail == [ok |-> FALSE, val |-> EmptyDict, next |-> 0]
POk(v, n) == [ok |-> TRUE, val |-> v, next |-> n]

RECURSIVE SkipWs(_, _)
SkipWs(toks, n) ==
  IF n <= Len(toks) /\ toks[n] = WS THEN SkipWs(toks, n + 1) ELSE n

At(toks, n, tok) == n <= Len(toks) /\ toks[n] = tok

RECURSIVE ParseValue(_, _, _)
RECURSIVE ParseElems(_, _, _, _)
RECURSIVE ParseMembers(_, _, _, _)

\* one JSON value starting at lexeme n; strict rejects raw control
\* characters inside a string literal, strict=False accepts them
ParseValue(toks, n, strict) ==
  IF n > Len(toks) THEN PFail
  ELSE LET t == toks[n] IN
    CASE t.k = "num" -> POk(JNum(t.n), n + 1)
      [] t.k = "null" -> POk(JNull, n + 1)
      [] t.k = "bool" -> POk(JBool(t.v), n + 1)
      [] t.k = "str" -> POk(JStr(t.v), n + 1)
      [] t.k = "rawstr" -> IF strict THEN PFail ELSE POk(JStr(t.v), n + 1)
      [] t = LK ->
           LET m == SkipWs(toks, n + 1) IN
           IF At(toks, m, RK) THEN POk(JList(<<>>), m + 1)
           ELSE ParseElems(toks, m, strict, <<>>)
      [] t = LB ->
           LET m == SkipWs(toks, n + 1) IN
           IF At(toks, m, RB) THEN POk(EmptyDict, m + 1)
           ELSE ParseMembers(toks, m, strict, EmptyDict)
      [] OTHER -> PFail

\* (each intermediate result is bound once, as the element of a singleton)
\* the elements of an array from lexeme n on, acc the elements read so far
ParseElems(toks, n, strict, acc) ==
  CHOOSE res \in
    { IF ~r.ok THEN PFail
      ELSE IF At(toks, SkipWs(toks, r.next), COMMA)
           THEN ParseElems(toks, SkipWs(toks, SkipWs(toks, r.next) + 1),
                           strict, Append(acc, r.val))
      ELSE IF At(toks, SkipWs(toks, r.next), RK)
           THEN POk(JList(Append(acc, r.val)), SkipWs(toks, r.next) + 1)
      ELSE PFail
      : r \in {ParseValue(toks, n, strict)} } : TRUE

\* the members of an object from lexeme n on, acc the mapping read so far
ParseMembers(toks, n, strict, acc) ==
  IF n > Len(toks) \/ toks[n].k # "key" THEN PFail
  ELSE CHOOSE res \in
    { IF ~r.ok THEN PFail
      ELSE IF At(toks, SkipWs(toks, r.next), COMMA)
           THEN ParseMembers(toks, SkipWs(toks, SkipWs(toks, r.next) + 1),
                             strict, Put(acc, toks[n].v, r.val))
      ELSE IF At(toks, SkipWs(toks, r.next), RB)
           THEN POk(Put(acc, toks[n].v, r.val), SkipWs(toks, r.next) + 1)
      ELSE PFail
      : r \in {ParseValue(toks, SkipWs(toks, n + 1), strict)} } : TRUE

\* json.loads(text, strict=...): one value, white space around it, no
\* extra data; ok = FALSE stands for json.JSONDecodeError
Loads(toks, strict) ==
  CHOOSE res \in
    { IF r.ok /\ SkipWs(toks, r.next) > Len(toks) THEN r ELSE PFail
      : r \in {ParseValue(toks, SkipWs(toks, 1), strict)} } : TRUE

\* ------------------------------------------------ parse_json_from_response
\* the embedded spans tried before the whole response
Candidate_SpansFirst(toks) ==
  IF MarkerMatch(toks).found THEN Strip(MarkerMatch(toks).group)
  ELSE IF ObjectMatch(toks).found THEN Strip(ObjectMatch(toks).group)
  ELSE IF ArrayMatch(toks).found THEN Strip(ArrayMatch(toks).group)
  ELSE <<>>

\* a strategy whose text is empty or does not parse gives way to the next
Candidate_NextOnFailure(toks) ==
  LET Parses(t) == t # <<>> /\ (Loads(t, TRUE).ok \/ Loads(t, FALSE).ok)
      json_match == MarkerMatch(toks)
      stripped_response == Strip(toks)
      object_match == ObjectMatch(toks)
      array_match == ArrayMatch(toks)
  IN IF json_match.found /\ Parses(Strip(json_match.group))
     THEN Strip(json_match.group)
     ELSE IF /\ stripped_response # <<>> /\ stripped_response[1] \in {LB, LK}
             /\ Parses(stripped_response)
          THEN stripped_response
     ELSE IF object_match.found /\ Parses(Strip(object_match.group))
          THEN Strip(object_match.group)
     ELSE IF array_match.found THEN Strip(array_match.group)
     ELSE <<>>

\* lines 59-77: the candidate text; <<>> stands for None and for ''
Candidate(toks) ==
  LET json_match == MarkerMatch(toks)
      stripped_response == Strip(toks)
      object_match == ObjectMatch(toks)
      array_match == ArrayMatch(toks)
  IN IF json_match.found THEN Strip(json_match.group)
     ELSE IF stripped_response # <<>> /\ stripped_response[1] \in {LB, LK}
          THEN stripped_response
     ELSE IF object_match.found THEN Strip(object_match.group)
     ELSE IF array_match.found THEN Strip(array_match.group)
     ELSE <<>>

\* lines 80-104: strict parse, then the lenient one, then the empty dict
ParseCandidate(json_text) ==
  IF json_text = <<>> THEN EmptyDict
  ELSE CHOOSE res \in
    { IF e1.ok THEN e1.val
      ELSE IF Loads(json_text, FALSE).ok THEN Loads(json_text, FALSE).val
      ELSE EmptyDict
      : e1 \in {Loads(json_text, TRUE)} } : TRUE

Returned(v) == [raised |-> FALSE, val |-> v]
Raised == [raised |-> TRUE, val |-> EmptyDict]

\* the isinstance check of line 111 left out
parse_json_from_response_Unchecked(response_text) ==
  IF ~response_text.isStr THEN Raised
  ELSE CHOOSE res \in
    { Returned(parsed_json)
      : parsed_json \in
          { ParseCandidate(json_text)
            : json_text \in {Candidate(response_text.toks)} } } : TRUE

\* A response that is not text makes re.search raise TypeError; the handler
\* of line 106 then slices response_text and raises TypeError itself.
parse_json_from_response(response_text) ==
  IF ~response_text.isStr THEN Raised
  ELSE CHOOSE res \in
    { IF ~(IsDict(parsed_json) \/ IsList(parsed_json))
      THEN Returned(EmptyDict)
      ELSE Returned(parsed_json)
      : parsed_json \in
          { ParseCandidate(json_text)
            : json_text \in {Candidate(response_text.toks)} } } : TRUE



\* ------------------------------------------------ generate_slide_structure
valid_slide_types ==
  { "title_slide", "content_slide", "bullet_point_slide", "image_slide",
    "conclusion_slide" }

Field(slide, key) == Get(slide, key, JNull)

\* slide_type in valid_slide_types, for a value the set can hash
ValidType(v) == v.tag = "str" /\ v.s \in valid_slide_types

\* a list or a mapping cannot be hashed: the membership test of line 221
\* raises TypeError for it
Unhashable(v) == v.tag \in {"list", "dict"}

\* line 219
IsSlide(slide) ==
  IsDict(slide) /\ HasKey(slide, "slide_title") /\ HasKey(slide, "slide_type")

\* lines 220-225 for the element at 0-based index i of the extracted list
ProcessSlide(slide, i) ==
  Put(IF ValidType(Field(slide, "slide_type")) THEN slide
      ELSE Put(slide, "slide_type", JStr("content_slide")),
      "slide_number", JNum(i + 1))

Processed(s) == [raised |-> FALSE, slides |-> s]
ProcessRaised == [raised |-> TRUE, slides |-> <<>>]

\* the loop of lines 218-228 from the k-th element on
RECURSIVE ProcessStructure(_, _, _)
ProcessStructure(elems, k, processed_structure) ==
  IF k > Len(elems) THEN Processed(processed_structure)
  ELSE IF ~IsSlide(elems[k])
       THEN ProcessStructure(elems, k + 1, processed_structure)
  ELSE IF Unhashable(Field(elems[k], "slide_type")) THEN ProcessRaised
  ELSE ProcessStructure(elems, k + 1,
         Append(processed_structure, ProcessSlide(elems[k], k - 1)))

\* one call of the generation service: it raises, or it answers
CallRaised == [raised |-> TRUE, text |-> NoneText]
Answer(t) == [raised |-> FALSE, text |-> t]

\* st.session_state['debug_slide_structure']
Unset == [set |-> FALSE, val |-> <<>>]
SetTo(v) == [set |-> TRUE, val |-> v]

NonEmptyList(r) == ~r.raised /\ IsList(r.val) /\ r.val.elems # <<>>

\* a single descriptor taken as a list of one
generate_slide_structure_Lenient(call, debug) ==
  IF call.raised THEN [ret |-> <<>>, debug |-> debug]
  ELSE CHOOSE res \in
    { IF r.raised THEN [ret |-> <<>>, debug |-> debug]
      ELSE CHOOSE g \in
        { IF p.raised THEN [ret |-> <<>>, debug |-> debug]
          ELSE [ret |-> p.slides, debug |-> SetTo(p.slides)]
          : p \in { ProcessStructure(IF IsList(r.val) THEN r.val.elems
                                     ELSE <<r.val>>, 1, <<>>) } }
        : TRUE
      : r \in {parse_json_from_response(call.text)} } : TRUE

\* lines 141-239: what is returned, and the session entry of line 230
generate_slide_structure(call, debug) ==
  IF call.raised THEN [ret |-> <<>>, debug |-> debug]
  ELSE CHOOSE res \in
    { IF slide_structure.raised \/ ~NonEmptyList(slide_structure)
      THEN [ret |-> <<>>, debug |-> debug]
      ELSE CHOOSE g \in
        { IF p.raised THEN [ret |-> <<>>, debug |-> debug]
          ELSE [ret |-> p.slides, debug |-> SetTo(p.slides)]
          : p \in {ProcessStructure(slide_structure.val.elems, 1, <<>>)} }
        : TRUE
      : slide_structure \in {parse_json_from_response(call.text)} } : TRUE

\* -------------------------------------------------- generate_slide_content
\* the truth value Python gives a JSON value
Truthy(v) ==
  CASE v.tag = "bool" -> v.s = "true"
    [] v.tag = "num" -> v.n # 0
    [] v.tag = "str" -> v.s # ""
    [] v.tag = "null" -> FALSE
    [] OTHER -> v.elems # <<>>

\* lines 282-288: the descriptor that follows is read at index slide_number
\* of the session's structure
is_explanation_for_image_OwnIndex(slide_info, debug) ==
  LET slide_title == Get(slide_info, "slide_title", JStr("Untitled Slide"))
      slide_number == Get(slide_info, "slide_number", JNum(0)).n
  IN /\ debug.set
     /\ 1 <= slide_number
     /\ slide_number <= Len(debug.val)
     /\ Field(debug.val[slide_number], "slide_title") = slide_title
     /\ Field(debug.val[slide_number], "slide_type") = JStr("image_slide")
is_explanation_for_image(slide_info, debug) ==
  LET slide_title == Get(slide_info, "slide_title", JStr("Untitled Slide"))
      slide_number == Get(slide_info, "slide_number", JNum(0)).n
  IN /\ debug.set
     /\ slide_number < Len(debug.val)
     /\ Field(debug.val[slide_number + 1], "slide_title") = slide_title
     /\ Field(debug.val[slide_number + 1], "slide_type") = JStr("image_slide")

\* lines 266-378: the template chosen and the framing of a content slide
BuildPrompt(slide_info, debug) ==
  LET slide_type == Get(slide_info, "slide_type", JStr("content_slide")) IN
  [ template |-> IF ValidType(slide_type) THEN slide_type.s ELSE "generic",
    slide_number |-> Get(slide_info, "slide_number", JNum(0)).n,
    lead_in |-> /\ slide_type = JStr("content_slide")
                /\ is_explanation_for_image(slide_info, debug) ]

\* line 398
ErrorSentinel ==
  JDict(<<"main_content", "needs_image", "error">>,
        << JList(<<JStr("Error: Could not generate content.")>>),
           JBool("false"), JStr("Failed to generate or parse content") >>)

\* line 417
ExceptionPayload ==
  JDict(<<"main_content", "needs_image", "error">>,
        << JList(<<JStr("Error generating content: <exception>")>>),
           JBool("false"), JStr("<exception>") >>)

placeholder_image_url ==
  JStr("https://placehold.co/1024x576/eee/ccc?text=Image+Gen+Error")
pollinations_image_url ==
  JStr("<base><prompt>?width=1024&height=576&seed=<time>&nologo=true")

\* line 424
max_desc_len == 300

\* lines 420-445: len() of a description that is no text, list or mapping
\* raises, and so does cutting a list or mapping longer than max_desc_len
\* and adding "..." to it; the placeholder is returned then
generate_pollinations_image(description) ==
  IF \/ description.tag \in {"null", "num", "bool"}
     \/ /\ description.tag \in {"list", "dict"}
        /\ Len(description.elems) > max_desc_len
  THEN placeholder_image_url
  ELSE pollinations_image_url

\* ------------------------------ generate_pollinations_image on texts
\* A text is the sequence of its characters; the words of the code's own
\* literals are written as one element each. A description is a text, a
\* list (items holds its elements as printed) or a value without len().
TextValue(chars) == [tag |-> "str", items |-> chars]
ListValue(items) == [tag |-> "list", items |-> items]
Scalar(tag) == [tag |-> tag, items |-> <<>>]

\* line 46, the default of POLLINATIONS_API_URL
pollinations_base_url == <<"https://image.pollinations.ai/prompt/">>
\* line 47
PlaceholderUrl ==
  <<"https://placehold.co/1024x576/eee/ccc", "?", "text=Image+Gen+Error">>

\* lines 425-426
Truncate_AtLimit(items) ==
  IF Len(items) >= max_desc_len
  THEN SubSeq(items, 1, max_desc_len) \o <<".", ".", ".">>
  ELSE items
Truncate(items) ==
  IF Len(items) > max_desc_len
  THEN SubSeq(items, 1, max_desc_len) \o <<".", ".", ".">>
  ELSE items

\* how an f-string prints a list: [e1, e2]
Printed(items) ==
  IF items = <<>> THEN <<>>
  ELSE [ i \in 1..(3 * Len(items) - 2) |->
           CASE i % 3 = 1 -> items[(i + 2) \div 3]
             [] i % 3 = 2 -> ","
             [] OTHER -> " " ]

Formatted(v) ==
  IF v.tag = "list" THEN <<"[">> \o Printed(v.items) \o <<"]">>
  ELSE v.items

\* line 429
image_prompt(description, context) ==
  <<"Educational", " ", "illustration", ":", " ">> \o description
  \o <<".", " ", "Context", ":", " ">> \o context
  \o <<".", " ", "Style", ":", " ", "clean", ",", " ", "professional", ",",
       " ", "clear", ",", " ", "high", " ", "resolution", ".">>

\* urllib.parse.quote: letters, digits and _.-~/ stay, the rest is escaped
quote_char(c) ==
  CASE c = " " -> "%20"
    [] c = ":" -> "%3A"
    [] c = "," -> "%2C"
    [] c = "&" -> "%26"
    [] c = "=" -> "%3D"
    [] c = "?" -> "%3F"
    [] c = "[" -> "%5B"
    [] c = "]" -> "%5D"
    [] OTHER -> c
quote(chars) == [i \in DOMAIN chars |-> quote_char(chars[i])]

\* lines 434-437, seed being int(time.time())
Query_SeedLast(seed) ==
  <<"?", "width=1024", "&", "height=576", "&", "nologo=true", "&", "seed=",
    seed>>
Query(seed) ==
  <<"?", "width=1024", "&", "height=576", "&", "seed=", seed, "&",
    "nologo=true">>

\* lines 424-437, the body of the try: len() of a value that has none
\* raises, and so does adding "..." to the slice of a list
BuildRaised == [raised |-> TRUE, url |-> <<>>]
BuildUrl(description, context, now) ==
  IF description.tag \notin {"str", "list"} THEN BuildRaised
  ELSE IF description.tag = "list" /\ Len(description.items) > max_desc_len
  THEN BuildRaised
  ELSE [ raised |-> FALSE,
         url |-> pollinations_base_url
                 \o quote(image_prompt(
                      IF description.tag = "str"
                      THEN Truncate(description.items)
                      ELSE Formatted(description),
                      Formatted(context)))
                 \o Query(now) ]

\* lines 420-445: the handler of lines 443-445 returns the placeholder
pollinations_image_Unguarded(description, context, now) ==
  BuildUrl(description, context, now)
pollinations_image(description, context, now) ==
  CHOOSE res \in
    { IF b.raised THEN [raised |-> FALSE, url |-> PlaceholderUrl] ELSE b
      : b \in {BuildUrl(description, context, now)} } : TRUE

\* line 401
WantsImage_AnyType(content, slide_info) ==
  Truthy(Field(content, "needs_image"))
WantsImage(content, slide_info) ==
  /\ Truthy(Field(content, "needs_image"))
  /\ Get(slide_info, "slide_type", JStr("content_slide")) = JStr("image_slide")

\* lines 118-133: the client is there, or is made on demand when the
\* environment holds a usable key; otherwise ValueError is raised
init_groq_client_if_needed(groq_client, api_key) ==
  [ raised |-> ~groq_client /\ api_key # "usable",
    groq_client |-> groq_client \/ api_key = "usable" ]

\* lines 395-398: what is not a filled mapping is replaced by the sentinel
Checked_AsIs(val) == val
Checked(val) ==
  IF ~IsDict(val) \/ val = EmptyDict THEN ErrorSentinel ELSE val

\* lines 393-411 for an answer that the extractor took
ContentOf(r, slide_info) ==
  LET content == Checked(r.val)
  IN IF WantsImage(content, slide_info)
     THEN Put(content, "image_url",
              generate_pollinations_image(
                Get(content, "image_description",
                    JStr("Illustration for <slide_title>"))))
     ELSE content

\* a payload comes back
Payload(content, images) ==
  [raised |-> FALSE, content |-> content, images |-> images]
\* line 414: the handler reads slide_title, which line 249 has not bound
\* yet, and UnboundLocalError leaves the function
HandlerRaised == [raised |-> TRUE, content |-> JNull, images |-> 0]

\* lines 247-417: the payload returned and the number of resolver calls.
\* The handler of lines 413-417 gives the exception payload when
\* slide_title is bound, that is when lines 248-249 went through.
generate_slide_content(groq_client, api_key, slide_info, call) ==
  IF init_groq_client_if_needed(groq_client, api_key).raised
     \/ ~IsDict(slide_info)
  THEN HandlerRaised
  ELSE IF call.raised THEN Payload(ExceptionPayload, 0)
  ELSE CHOOSE res \in
    { IF r.raised THEN Payload(ExceptionPayload, 0)
      ELSE Payload(ContentOf(r, slide_info),
                   IF WantsImage(Checked(r.val), slide_info) THEN 1 ELSE 0)
      : r \in {parse_json_from_response(call.text)} } : TRUE

\* lines 485-490: where the payload of the i-th descriptor (0-based) goes
StoreContent(slide_contents, i, slide_num, total_slides, content) ==
  IF 1 <= slide_num /\ slide_num <= total_slides
  THEN [slide_contents EXCEPT ![slide_num] = content]
  ELSE IF i < Len(slide_contents)
       THEN [slide_contents EXCEPT ![i + 1] = content]
  ELSE Append(slide_contents, content)

\* the descriptors taken from the last to the first
Enumerated_Backwards(slide_structure, i) ==
  slide_structure[Len(slide_structure) - i]

\* line 474: enumerate(slide_structure) gives iteration i the descriptor at
\* index i of the list
Enumerated(slide_structure, i) ==
  slide_structure[i + 1]

\* line 494
final_contents(slide_contents) ==
  SelectSeq(slide_contents, LAMBDA c : c # JNull)

\* lines 496-499: success when no slot is None, else a warning with the
\* number of the slots that are filled
BatchReport(contents, total_slides) ==
  IF Len(contents) = total_slides
  THEN [kind |-> "success", count |-> total_slides, total |-> total_slides]
  ELSE [kind |-> "warning", count |-> Len(contents), total |-> total_slides]

\* -------------------------------------------------------- create_powerpoint
\* Lengths in inches are written in hundredths (120 is 1.2 in); pptx.util
\* Inches turns inches into the integer number of EMU, 914400 to the inch.
Inches(hundredths) == hundredths * 9144
\* Length.inches, in hundredths
InchesOf(emu) == (emu * 100) \div 914400

\* lines 518-519
slide_width == Inches(1333)
slide_height == Inches(750)

\* the layout of the content slides for every type but image_slide
layout_index_TwoLayouts(type) ==
  CASE type = JStr("image_slide") -> 6
    [] OTHER -> 1

\* lines 527-537 and 564
layout_index(type) ==
  CASE type = JStr("title_slide") -> 0
    [] type \in {JStr("content_slide"), JStr("bullet_point_slide"),
                 JStr("conclusion_slide")} -> 1
    [] type = JStr("image_slide") -> 6
    [] type = JStr("title_only") -> 5
    [] OTHER -> 1

\* line 557: a missing or empty payload, or one whose error is truthy
Skipped(content) ==
  \/ content = JNull
  \/ content = EmptyDict
  \/ Truthy(Get(content, "error", JNull))

\* lines 603-608
image_source(content) ==
  IF HasKey(content, "image_url") /\ Truthy(Field(content, "image_url"))
  THEN "url"
  ELSE IF HasKey(content, "image_content_base64")
          /\ Truthy(Field(content, "image_content_base64"))
  THEN "base64"
  ELSE "none"

\* line 872
max_size == 20 * 1024 * 1024

\* the ceiling counted as reached by a body of max_size bytes
Exceeds_AtLimit(size) == size >= max_size

\* line 875
Exceeds(size) == size > max_size

\* what _add_image_to_slide gives: the picture on the slide, or the
\* ValueError of lines 907-920 with its message
ImageAdded == [raised |-> FALSE, message |-> "", picture |-> TRUE]
ImageFailed(message) == [raised |-> TRUE, message |-> message, picture |-> FALSE]

\* lines 858-920: what str(e) of the ValueError says, "" when the picture
\* was added. response is what the download gives: an error of requests,
\* or a body of nbytes bytes that is or is not a picture; a base64 source
\* is decoded to such a body without a download. The ValueError of lines
\* 876 and 881 is caught at line 918 and wrapped in another.
add_image_to_slide(source, response) ==
  CASE source = "url" /\ response.error = "timeout"
         -> "Timeout downloading image"
    [] source = "url" /\ response.error \in {"http", "network"}
         -> "Failed to download image"
    [] source = "url" /\ response.nbytes > max_size
         -> "Failed to process or add image: Image download exceeded max size limit"
    [] source = "url" /\ response.nbytes = 0
         -> "Failed to process or add image: Image download resulted in empty content."
    [] ~response.picture \/ response.nbytes = 0
         -> "Failed to process or add image: <add_picture>"
    [] OTHER -> ""

\* Texts of main_content come from a fixed set, on which strip() and
\* startswith("Error") are tabulated.
Blank == {"", " "}
ErrorTexts ==
  { "Error: Could not generate content.",
    "Error generating content: <exception>", "Error generating content: " }

\* line 635: the lines joined; joining raises on what cannot be iterated
\* or holds something that is no text
JoinRaises(main_content) ==
  \/ main_content.tag \in {"null", "num", "bool"}
  \/ /\ main_content.tag = "list"
     /\ \E k \in DOMAIN main_content.elems : main_content.elems[k].tag # "str"

\* the lines of the caption that are left after strip()
CaptionLines(main_content) ==
  IF main_content.tag = "list"
  THEN SelectSeq([k \in DOMAIN main_content.elems |-> main_content.elems[k].s],
                 LAMBDA l : l \notin Blank)
  ELSE IF main_content.tag = "str" /\ main_content.s \notin Blank
  THEN <<"<characters>">>
  ELSE <<>>

\* line 636
WantsCaption(main_content) ==
  /\ CaptionLines(main_content) # <<>>
  /\ CaptionLines(main_content)[1] \notin ErrorTexts

\* lines 620-621, 638: where the picture ends and the caption starts
img_top == Inches(120)
img_height == Inches(450)
cap_top == img_top + img_height + Inches(10)

\* line 640: the sum in EMU is compared with the height in inches, both
\* taken as plain numbers (the inches are in hundredths here, so the EMU
\* are scaled alike)
CaptionFits == (cap_top + Inches(50)) * 100 < InchesOf(slide_height)

\* a section of the document: prs.slides.add_slide and what was put on it.
\* The heading is the title, set at lines 576-600 on an image slide and at
\* lines 662-668 on the layouts 0, 1 and 5, which have a title placeholder.
Section(pos, layout, image, caption, notice) ==
  [pos |-> pos, layout |-> layout, heading |-> TRUE, image |-> image,
   caption |-> caption, notice |-> notice]

\* a section was assembled
Assembled(section) == [raised |-> FALSE, section |-> section]
\* an exception left create_powerpoint
AssembleRaised == [raised |-> TRUE, section |-> Section(0, 0, FALSE, FALSE, "")]

\* lines 615-657: the picture, the caption and the notice of an image
\* slide; the handler of lines 649-653 turns every failure into a notice
ImageSection_Unguarded(pos, content, response) ==
  IF image_source(content) = "none"
  THEN Assembled(Section(pos, 6, FALSE, FALSE,
                         "(Visual source missing for this slide)"))
  ELSE IF add_image_to_slide(image_source(content), response) # ""
          \/ JoinRaises(Get(content, "main_content", JList(<<>>)))
  THEN AssembleRaised
  ELSE Assembled(Section(pos, 6, TRUE,
                   /\ WantsCaption(Get(content, "main_content", JList(<<>>)))
                   /\ CaptionFits,
                   ""))
ImageSection(pos, content, response) ==
  IF image_source(content) = "none"
  THEN Assembled(Section(pos, 6, FALSE, FALSE,
                         "(Visual source missing for this slide)"))
  ELSE CHOOSE sec \in
    { IF failure # ""
      THEN Assembled(Section(pos, 6, FALSE, FALSE,
                             "(Error adding visual: " \o failure \o ")"))
      ELSE IF JoinRaises(Get(content, "main_content", JList(<<>>)))
      THEN Assembled(Section(pos, 6, TRUE, FALSE,
                             "(Error adding visual: <TypeError>)"))
      ELSE Assembled(Section(pos, 6, TRUE,
                   /\ WantsCaption(Get(content, "main_content", JList(<<>>)))
                   /\ CaptionFits,
                   ""))
      : failure \in {add_image_to_slide(image_source(content), response)} }
    : TRUE

\* lines 561-747 for one position that is not skipped
AssembleSection(pos, slide_info, content, response) ==
  LET type == Get(slide_info, "slide_type", JStr("content_slide"))
  IN IF type = JStr("image_slide") THEN ImageSection(pos, content, response)
     ELSE Assembled(Section(pos, layout_index(type), FALSE, FALSE, ""))

\* lines 546-550
num_slides_to_create(structure, contents) ==
  IF Len(structure) # Len(contents)
  THEN IF Len(structure) < Len(contents) THEN Len(structure) ELSE Len(contents)
  ELSE Len(structure)

\* ------------------------------------------------------------------- state
VARIABLES
  pc,             \* where the run is: "compose", "extracted", ...
  response_text,  \* the text of the generation service's answer
  nparts,         \* how many pieces of the answer have arrived
  parsed_json,    \* what parse_json_from_response gave for response_text
  slide_structure,        \* the descriptors of the batch
  debug_slide_structure,  \* st.session_state['debug_slide_structure']
  slide_contents,         \* the result array of the batch, JNull for None
  prompts,                \* the prompts of the content calls made so far
  groq_calls,             \* calls of the generation service
  image_calls,            \* calls of generate_pollinations_image
  returned,               \* what create_slides_with_content returned
  args,                   \* the arguments of the call under study
  result,                 \* what that call gave back
  prs_slides,             \* prs.slides, the sections of the document
  deck_pos,               \* the loop index i of create_powerpoint
  generated,              \* the payloads generate_slide_content gave the batch
  report,                 \* what lines 496-499 tell about the batch
  session,                \* st.session_state: stage, edited_structure, ...
  download                \* size and image_stream of _add_image_to_slide

extractVars == <<pc, response_text, nparts, parsed_json>>
batchVars == <<slide_structure, debug_slide_structure, slide_contents,
               prompts, groq_calls, image_calls, returned, generated, report>>
vars == <<pc, response_text, nparts, parsed_json, slide_structure,
          debug_slide_structure, slide_contents, prompts, groq_calls,
          image_calls, returned, args, result, prs_slides, deck_pos,
          generated, report, session, download>>
callVars == <<args, result, prs_slides, deck_pos, session, download>>

NothingReturned == [structure |-> <<>>, contents |-> <<>>]

\* lines 462, 496-499: the message of the batch and the numbers in it
Report(kind, count, total) == [kind |-> kind, count |-> count, total |-> total]
NoReport == Report("none", 0, 0)

\* lines 870-871: size = 0 and an empty image_stream, no chunk read
NoDownload == [read |-> 0, size |-> 0, nbytes |-> 0]

\* app.py, lines 27-44
NoSession ==
  [stage |-> "input", edited_structure |-> <<>>, slide_contents |-> <<>>]

BatchIdle ==
  /\ slide_structure = <<>>
  /\ debug_slide_structure = Unset
  /\ slide_contents = <<>>
  /\ prompts = <<>>
  /\ groq_calls = 0
  /\ image_calls = 0
  /\ returned = NothingReturned
  /\ generated = <<>>
  /\ report = NoReport

NotCalled == [raised |-> FALSE, val |-> JNull]

NoArgs == [f |-> "none"]
NoResult == [f |-> "none"]

CallIdle ==
  /\ args = NoArgs
  /\ result = NoResult
  /\ prs_slides = <<>>
  /\ deck_pos = 0
  /\ session = NoSession
  /\ download = NoDownload

\* ------------------------------------- the extractor on arbitrary answers
\* the object literal {"a": 1}
ObjLit == <<LB, KEY("a"), NUM(1), RB>>

\* the pieces an answer is made of
Parts ==
  { <<START>>, <<END>>, <<LB>>, <<RB>>, <<LK>>, <<RK>>, <<WS>>, <<PROSE>>,
    <<NUM(42)>>, <<NULL>>, <<RAWSTR("a")>>, ObjLit }

InitExtract ==
  /\ pc = "compose"
  /\ response_text = Text(<<>>)
  /\ nparts = 0
  /\ parsed_json = NotCalled
  /\ BatchIdle
  /\ CallIdle

\* the generation service writes one more piece of its answer
Emit ==
  /\ pc = "compose"
  /\ response_text.isStr
  /\ nparts < MaxParts
  /\ \E part \in Parts :
       response_text' = Text(response_text.toks \o part)
  /\ nparts' = nparts + 1
  /\ UNCHANGED <<pc, parsed_json>>
  /\ UNCHANGED batchVars
  /\ UNCHANGED callVars

\* the completion carries no content: message.content is None
EmitNone ==
  /\ pc = "compose"
  /\ response_text = Text(<<>>)
  /\ response_text' = NoneText
  /\ UNCHANGED <<pc, nparts, parsed_json>>
  /\ UNCHANGED batchVars
  /\ UNCHANGED callVars

\* a call of parse_json_from_response on the answer
Extract ==
  /\ pc = "compose"
  /\ parsed_json' = parse_json_from_response(response_text)
  /\ pc' = "extracted"
  /\ UNCHANGED <<response_text, nparts>>
  /\ UNCHANGED batchVars
  /\ UNCHANGED callVars

NextExtract == Emit \/ EmitNone \/ Extract

SpecExtract == InitExtract /\ [][NextExtract]_vars

\* ---------------------------------------------- create_slides_with_content
Title(t) == <<KEY("slide_title"), STR(t)>>
Type(t) == <<KEY("slide_type"), STR(t)>>
Obj2(a, b) == <<LB>> \o a \o <<COMMA, WS>> \o b \o <<RB>>

\* the elements the generation service puts in its list: descriptors (one
\* with a number of its own), a descriptor of an unknown type, one without
\* a type, one whose type is a list, and a bare number
Items ==
  { <<LB, KEY("slide_number"), NUM(7), COMMA>> \o Title("A") \o <<COMMA>>
      \o Type("content_slide") \o <<RB>>,
    Obj2(Title("A"), Type("image_slide")),
    Obj2(Title("B"), Type("content_slide")),
    Obj2(Title("A"), Type("title_slide")),
    Obj2(Title("A"), Type("diagram_slide")),
    <<LB>> \o Title("A") \o <<RB>>,
    Obj2(Title("A"), <<KEY("slide_type"), LK, STR("image_slide"), RK>>),
    <<NUM(1)>> }

ItemLists == UNION { [1..n -> Items] : n \in 0..MaxSlides }

RECURSIVE JoinItems(_)
JoinItems(items) ==
  IF items = <<>> THEN <<>>
  ELSE IF Len(items) = 1 THEN items[1]
  ELSE items[1] \o <<COMMA, WS>> \o JoinItems(Tail(items))

ListText(items) == <<LK>> \o JoinItems(items) \o <<RK>>

\* the answers to the structure prompt: a list between the markers, a bare
\* list, a list after some prose, and answers that hold no list
StructureAnswers ==
  { Text(<<START, WS>> \o ListText(l) \o <<WS, END>>) : l \in ItemLists }
  \cup { Text(ListText(l)) : l \in ItemLists }
  \cup { Text(<<PROSE, WS>> \o ListText(l)) : l \in ItemLists }
  \cup { NoneText, Text(<<PROSE>>),
         Text(<<START>> \o Obj2(Title("A"), Type("content_slide")) \o <<END>>),
         Text(<<START, NUM(42), END>>) }

StructureCalls == {CallRaised} \cup { Answer(t) : t \in StructureAnswers }

TextPayload ==
  <<START, LB, KEY("main_content"), LK, STR("p"), RK, COMMA,
    KEY("needs_image"), FALSE_, RB, END>>
ImagePayload ==
  <<START, LB, KEY("main_content"), LK, STR("caption"), RK, COMMA,
    KEY("needs_image"), TRUE_, COMMA, KEY("image_description"), STR("d"),
    RB, END>>

\* the answers to a content prompt
ContentCalls ==
  {CallRaised} \cup
  { Answer(Text(t)) : t \in {TextPayload, ImagePayload, <<PROSE>>} }

Init ==
  /\ pc = "start"
  /\ response_text = Text(<<>>)
  /\ nparts = 0
  /\ parsed_json = NotCalled
  /\ BatchIdle
  /\ CallIdle

\* lines 452-470: the session entries are cleared, the structure is
\* generated from one of the answers, and the batch stops there when the
\* structure is empty
GenerateStructureFrom(calls) ==
  /\ pc = "start"
  /\ \E call \in calls :
     \E g \in {generate_slide_structure(call, Unset)} :
       /\ response_text' = call.text
       /\ parsed_json' = IF call.raised THEN NotCalled
                         ELSE parse_json_from_response(call.text)
       /\ slide_structure' = g.ret
       /\ debug_slide_structure' = g.debug
       /\ slide_contents' = [n \in 1..Len(g.ret) |-> JNull]
       /\ pc' = IF g.ret = <<>> THEN "returned" ELSE "content"
       /\ report' = IF g.ret = <<>> THEN Report("error", 0, 0) ELSE NoReport
  /\ groq_calls' = groq_calls + 1
  /\ returned' = NothingReturned
  /\ UNCHANGED <<nparts, prompts, image_calls, generated>>
  /\ UNCHANGED callVars

GenerateStructure == GenerateStructureFrom(StructureCalls)

\* lines 474-490 for the next descriptor, and lines 493-509 after the last
GenerateContent ==
  /\ pc = "content"
  /\ LET i == Len(prompts)
         slide_info == Enumerated(slide_structure, i)
         total_slides == Len(slide_structure)
     IN \E call \in ContentCalls :
        \E g \in {generate_slide_content(TRUE, "usable", slide_info, call)} :
       LET stored == StoreContent(slide_contents, i,
                                  Get(slide_info, "slide_number", JNum(i + 1)).n,
                                  total_slides, g.content)
       IN IF g.raised
          THEN /\ pc' = "raised"
               /\ UNCHANGED <<prompts, image_calls, slide_contents, returned,
                              groq_calls, generated, report>>
          ELSE
          /\ prompts' = Append(prompts, BuildPrompt(slide_info, debug_slide_structure))
          /\ image_calls' = image_calls + g.images
          /\ slide_contents' = stored
          /\ generated' = Append(generated, g.content)
          /\ groq_calls' = groq_calls + 1
          /\ IF i + 1 = total_slides
             THEN /\ pc' = "returned"
                  /\ returned' = [structure |-> slide_structure,
                                  contents |-> final_contents(stored)]
                  /\ report' = BatchReport(final_contents(stored), total_slides)
             ELSE UNCHANGED <<pc, returned, report>>
  /\ UNCHANGED <<response_text, nparts, parsed_json, slide_structure,
                 debug_slide_structure>>
  /\ UNCHANGED callVars

Next == GenerateStructure \/ GenerateContent

Spec == Init /\ [][Next]_vars

\* --------------------------------- generate_slide_content on its own
Descriptor(n, title, type) ==
  JDict(<<"slide_number", "slide_title", "slide_type">>,
        <<JNum(n), JStr(title), JStr(type)>>)

\* descriptors of every type, of an unknown type and without a type, and
\* arguments that are no mapping
Descriptors ==
  { Descriptor(n, t, ty) : n \in 1..2, t \in {"A", "B"},
                           ty \in valid_slide_types \cup {"diagram_slide"} }
  \cup { JDict(<<"slide_title">>, <<JStr("A")>>), JNull, JStr("x") }

\* st.session_state['debug_slide_structure'] at the time of the call
Sessions ==
  { Unset,
    SetTo(<<Descriptor(1, "A", "content_slide"),
            Descriptor(2, "A", "image_slide")>>) }

\* the client of the instance and the key of the environment
Clients ==
  { [groq_client |-> TRUE, api_key |-> "usable"],
    [groq_client |-> FALSE, api_key |-> "usable"],
    [groq_client |-> FALSE, api_key |-> "missing"],
    [groq_client |-> FALSE, api_key |-> "refused"] }

Marked(toks) == <<START>> \o toks \o <<END>>
MainContent == <<KEY("main_content"), LK, STR("p"), RK, COMMA>>

\* the answers to a content prompt, in more kinds than the batch draws
WideContentAnswers ==
  { TextPayload, ImagePayload, <<PROSE>>,
    Marked(<<LK, NUM(1), RK>>),
    Marked(<<LB, RB>>),
    Marked(<<NUM(42)>>),
    Marked(<<LB>> \o MainContent \o <<KEY("needs_image"), TRUE_, RB>>),
    Marked(<<LB>> \o MainContent \o <<KEY("needs_image"), TRUE_, COMMA,
             KEY("image_description"), NULL, RB>>),
    Marked(<<LB>> \o MainContent \o <<KEY("needs_image"), NUM(1), RB>>),
    Marked(<<LB>> \o MainContent \o <<KEY("needs_image"), FALSE_, COMMA,
             KEY("image_url"), STR("u"), RB>>) }

WideContentCalls ==
  {CallRaised, Answer(NoneText)}
  \cup { Answer(Text(t)) : t \in WideContentAnswers }

InitContent ==
  /\ pc = "call"
  /\ response_text = Text(<<>>)
  /\ nparts = 0
  /\ parsed_json = NotCalled
  /\ slide_structure = <<>>
  /\ debug_slide_structure \in Sessions
  /\ slide_contents = <<>>
  /\ prompts = <<>>
  /\ groq_calls = 0
  /\ image_calls = 0
  /\ returned = NothingReturned
  /\ generated = <<>>
  /\ report = NoReport
  /\ \E c \in Clients, slide_info \in Descriptors, call \in WideContentCalls :
       args = [f |-> "generate_slide_content", groq_client |-> c.groq_client,
               api_key |-> c.api_key, slide_info |-> slide_info,
               call |-> call]
  /\ result = NoResult
  /\ prs_slides = <<>>
  /\ deck_pos = 0
  /\ session = NoSession
  /\ download = NoDownload

\* one call of generate_slide_content(slide_info, topic, complexity_level)
CallContent ==
  /\ pc = "call"
  /\ \E g \in {generate_slide_content(args.groq_client, args.api_key,
                                       args.slide_info, args.call)} :
       /\ result' = g
       /\ image_calls' = image_calls + g.images
       /\ IF g.raised
          THEN UNCHANGED <<prompts, groq_calls, response_text>>
          ELSE /\ prompts' = Append(prompts, BuildPrompt(args.slide_info,
                                                        debug_slide_structure))
               /\ groq_calls' = groq_calls + 1
               /\ response_text' = args.call.text
  /\ pc' = "done"
  /\ UNCHANGED <<nparts, parsed_json, slide_structure, debug_slide_structure,
                 slide_contents, returned, args, prs_slides, deck_pos,
                 generated, report, session, download>>

NextContent == CallContent

SpecContent == InitContent /\ [][NextContent]_vars

\* ----------------------------- generate_pollinations_image on its own
\* how far the lengths of the descriptions go beyond 0 and max_desc_len
MaxExtra == 2

Lengths ==
  0..MaxExtra \cup (max_desc_len - MaxExtra)..(max_desc_len + MaxExtra)

\* texts of every length of Lengths: of one letter, ending in a blank,
\* and beginning with &
Descriptions ==
  { TextValue([i \in 1..n |-> "a"]) : n \in Lengths }
  \cup { TextValue([i \in 1..n |-> IF i = n THEN " " ELSE "a"]) : n \in Lengths }
  \cup { TextValue([i \in 1..n |-> IF i = 1 THEN "&" ELSE "a"]) : n \in Lengths }
  \cup { ListValue([i \in 1..n |-> "1"])
         : n \in {2, max_desc_len, max_desc_len + 1} }
  \cup { Scalar("null"), Scalar("num"), Scalar("bool") }

Contexts == { TextValue(<<"T">>), TextValue(<<"a", "=", "b">>) }

Times == { "1793756082", "1793756083" }

InitImage ==
  /\ pc = "call"
  /\ response_text = Text(<<>>)
  /\ nparts = 0
  /\ parsed_json = NotCalled
  /\ BatchIdle
  /\ \E description \in Descriptions, context \in Contexts, now \in Times :
       args = [f |-> "generate_pollinations_image",
               description |-> description, context |-> context, now |-> now]
  /\ result = NoResult
  /\ prs_slides = <<>>
  /\ deck_pos = 0
  /\ session = NoSession
  /\ download = NoDownload

\* one call of generate_pollinations_image(description, context)
ResolveImage ==
  /\ pc = "call"
  /\ result' = pollinations_image(args.description, args.context, args.now)
  /\ image_calls' = image_calls + 1
  /\ pc' = "done"
  /\ UNCHANGED <<response_text, nparts, parsed_json, slide_structure,
                 debug_slide_structure, slide_contents, prompts, groq_calls,
                 returned, args, prs_slides, deck_pos, generated, report,
                 session, download>>

NextImage == ResolveImage

SpecImage == InitImage /\ [][NextImage]_vars

\* -------------------------------------------- create_powerpoint on its own
\* how many descriptors and payloads create_powerpoint is given
MaxDeck == 2

\* a type for each layout of lines 527-533, and one that is not a key there
DeckTypes == {"title_slide", "content_slide", "image_slide", "title_only",
              "block_diagram_slide"}

DeckStructures ==
  UNION { { [k \in 1..n |-> Descriptor(k, "A", f[k])] : f \in [1..n -> DeckTypes] }
          : n \in 0..MaxDeck }

TextContent ==
  JDict(<<"main_content", "needs_image">>, <<JList(<<JStr("p")>>), JBool("false")>>)

ImageContent(caption, url) ==
  JDict(<<"main_content", "needs_image", "image_description", "image_url">>,
        <<JList(<<JStr(caption)>>), JBool("true"), JStr("d"), url>>)

\* line 417 for an exception whose message is empty, as TimeoutError()
EmptyMessagePayload ==
  JDict(<<"main_content", "needs_image", "error">>,
        << JList(<<JStr("Error generating content: ")>>),
           JBool("false"), JStr("") >>)

\* the payloads: of text, of an image slide (with a caption, with a caption
\* that begins with Error, with a blank one, without image_url), the error
\* payloads of generate_slide_content, and a missing one
DeckContents ==
  { TextContent,
    ImageContent("caption", pollinations_image_url),
    ImageContent("Error: Could not generate content.", pollinations_image_url),
    ImageContent(" ", pollinations_image_url),
    JDict(<<"main_content", "needs_image">>,
          <<JList(<<JStr("caption")>>), JBool("true")>>),
    ErrorSentinel, EmptyMessagePayload, JNull }

DeckContentLists == UNION { [1..n -> DeckContents] : n \in 0..MaxDeck }

\* what the download of an image gives
Responses ==
  { [error |-> e, nbytes |-> 0, picture |-> FALSE]
    : e \in {"timeout", "http", "network"} }
  \cup { [error |-> "none", nbytes |-> n, picture |-> b]
         : n \in {0, 8192, max_size, max_size + 1}, b \in BOOLEAN }

InitDeck ==
  /\ pc = "deck"
  /\ response_text = Text(<<>>)
  /\ nparts = 0
  /\ parsed_json = NotCalled
  /\ BatchIdle
  /\ \E structure \in DeckStructures, contents \in DeckContentLists :
       args = [f |-> "create_powerpoint", structure |-> structure,
               contents |-> contents]
  /\ result = NoResult
  /\ prs_slides = <<>>
  /\ deck_pos = 0
  /\ session = NoSession
  /\ download = NoDownload

\* lines 552-747: one round of the loop
AssembleSlide ==
  /\ pc = "deck"
  /\ deck_pos < num_slides_to_create(args.structure, args.contents)
  /\ LET slide_info == args.structure[deck_pos + 1]
         content == args.contents[deck_pos + 1]
     IN IF Skipped(content)
        THEN UNCHANGED <<pc, prs_slides, result>>
        ELSE \E response \in Responses :
             \E a \in {AssembleSection(deck_pos + 1, slide_info, content,
                                        response)} :
               IF a.raised
               THEN /\ pc' = "raised"
                    /\ result' = [raised |-> TRUE, slides |-> <<>>]
                    /\ UNCHANGED prs_slides
               ELSE /\ prs_slides' = Append(prs_slides, a.section)
                    /\ UNCHANGED <<pc, result>>
  /\ deck_pos' = deck_pos + 1
  /\ UNCHANGED <<response_text, nparts, parsed_json, args, session, download>>
  /\ UNCHANGED batchVars

\* lines 749-758: the document is saved and returned
SaveDeck ==
  /\ pc = "deck"
  /\ deck_pos = num_slides_to_create(args.structure, args.contents)
  /\ result' = [raised |-> FALSE, slides |-> prs_slides]
  /\ pc' = "saved"
  /\ UNCHANGED <<response_text, nparts, parsed_json, args, prs_slides,
                 deck_pos, session, download>>
  /\ UNCHANGED batchVars

NextDeck == AssembleSlide \/ SaveDeck

SpecDeck == InitDeck /\ [][NextDeck]_vars

\* ------------------------------------ _add_image_to_slide, chunk by chunk
MaxChunks == 3

\* lengths of the chunks iter_content gives; the long ones stand for the
\* many chunks of 8192 bytes that bring the body near the ceiling
ChunkSizes == {1, 8192, max_size - 8192, max_size - 1}

Bodies == UNION { [1..n -> ChunkSizes] : n \in 0..MaxChunks }

\* the url answered with status 200; picture tells whether add_picture can
\* read the body
InitFetch ==
  /\ pc = "download"
  /\ response_text = Text(<<>>)
  /\ nparts = 0
  /\ parsed_json = NotCalled
  /\ BatchIdle
  /\ \E chunks \in Bodies, picture \in BOOLEAN :
       args = [f |-> "_add_image_to_slide", chunks |-> chunks,
               picture |-> picture]
  /\ result = NoResult
  /\ prs_slides = <<>>
  /\ deck_pos = 0
  /\ session = NoSession
  /\ download = NoDownload

\* lines 873-877: one round of the loop over iter_content
ReadChunk ==
  /\ pc = "download"
  /\ download.read < Len(args.chunks)
  /\ LET chunk == args.chunks[download.read + 1]
         size == download.size + chunk
     IN IF Exceeds(size)
        THEN /\ download' = [download EXCEPT !.read = @ + 1, !.size = size]
             /\ result' = ImageFailed("Failed to process or add image: Image download exceeded max size limit")
             /\ pc' = "failed"
        ELSE /\ download' = [read |-> download.read + 1, size |-> size,
                             nbytes |-> download.nbytes + chunk]
             /\ UNCHANGED <<pc, result>>
  /\ UNCHANGED <<response_text, nparts, parsed_json, args, prs_slides,
                 deck_pos, session>>
  /\ UNCHANGED batchVars

\* lines 878-905 and 918-920: after the last chunk
AddPicture ==
  /\ pc = "download"
  /\ download.read = Len(args.chunks)
  /\ IF download.nbytes = 0
     THEN /\ result' = ImageFailed("Failed to process or add image: Image download resulted in empty content.")
          /\ pc' = "failed"
     ELSE IF ~args.picture
     THEN /\ result' = ImageFailed("Failed to process or add image: <add_picture>")
          /\ pc' = "failed"
     ELSE /\ result' = ImageAdded
          /\ pc' = "added"
  /\ UNCHANGED <<response_text, nparts, parsed_json, args, prs_slides,
                 deck_pos, session, download>>
  /\ UNCHANGED batchVars

NextFetch == ReadChunk \/ AddPicture

SpecFetch == InitFetch /\ [][NextFetch]_vars

\* ------------------------------------ from the structure to the document
\* a title slide, a content slide, the image slide of the same title, and
\* a conclusion
ScenarioItems ==
  << Obj2(Title("T"), Type("title_slide")),
     Obj2(Title("A"), Type("content_slide")),
     Obj2(Title("A"), Type("image_slide")),
     Obj2(Title("C"), Type("conclusion_slide")) >>

ScenarioCalls ==
  { Answer(Text(<<START, WS>> \o ListText(ScenarioItems) \o <<WS, END>>)),
    Answer(Text(ListText(ScenarioItems))),
    Answer(Text(<<PROSE, WS>> \o ListText(ScenarioItems))) }

GenerateScenario == GenerateStructureFrom(ScenarioCalls)

\* The structure screen keeps the pair when every descriptor has its
\* payload, and the content screen hands it to create_powerpoint.
HandOver ==
  /\ pc = "returned"
  /\ returned.contents # <<>>
  /\ Len(returned.contents) = Len(returned.structure)
  /\ args' = [f |-> "create_powerpoint", structure |-> returned.structure,
              contents |-> returned.contents]
  /\ session' = [session EXCEPT !.stage = "content",
                                 !.edited_structure = returned.structure,
                                 !.slide_contents = returned.contents]
  /\ prs_slides' = <<>>
  /\ deck_pos' = 0
  /\ pc' = "deck"
  /\ UNCHANGED <<response_text, nparts, parsed_json, result, download>>
  /\ UNCHANGED batchVars

NextE2E ==
  GenerateScenario \/ GenerateContent \/ HandOver \/ AssembleSlide \/ SaveDeck

SpecE2E == Init /\ [][NextE2E]_vars

\* ----------------------------------------------------- the structure screen
MaxEdited == 2

\* structure_screen.py, line 23
screen_slide_types ==
  { "title_slide", "content_slide", "bullet_point_slide", "image_slide",
    "block_diagram_slide", "conclusion_slide" }

\* lines 30-58: the values the three widgets of a slide show when the user
\* has not touched them
Widgets(edited_structure) ==
  [ i \in DOMAIN edited_structure |->
      LET slide == edited_structure[i]
          current_type == Get(slide, "slide_type", JStr("content_slide"))
      IN [ slide_number |-> Get(slide, "slide_number", JNum(i)).n,
           slide_title |-> Get(slide, "slide_title", JStr("")).s,
           slide_type |-> IF current_type.tag = "str"
                             /\ current_type.s \in screen_slide_types
                          THEN current_type.s ELSE "content_slide" ] ]

\* lines 104-112: current_edits sorted by the Order input (the sort is
\* stable) and numbered again from 1
Renumbered(current_edits) ==
  LET Rank(i) ==
        1 + Cardinality({ j \in DOMAIN current_edits :
              \/ current_edits[j].slide_number < current_edits[i].slide_number
              \/ /\ current_edits[j].slide_number = current_edits[i].slide_number
                 /\ j < i })
  IN [ k \in DOMAIN current_edits |->
         LET i == CHOOSE i \in DOMAIN current_edits : Rank(i) = k
         IN Descriptor(k, current_edits[i].slide_title,
                       current_edits[i].slide_type) ]

\* lines 127-134
NewSlide(edited_structure) ==
  Descriptor(Len(edited_structure) + 1, "New Slide Title", "content_slide")

\* the edits are kept and only the payloads are stored
AcceptContents_KeepEdits(state, final_structure, contents) ==
  [state EXCEPT !.stage = "content", !.slide_contents = contents]

\* lines 175-177
AcceptContents(state, final_structure, contents) ==
  [state EXCEPT !.stage = "content", !.edited_structure = final_structure,
                !.slide_contents = contents]

\* line 170
Incomplete(final_structure, contents) ==
  contents = <<>> \/ Len(contents) # Len(final_structure)

\* what the user did on the screen, and the structure the screen had then
Event(screen, widget, index, before) ==
  [f |-> screen, widget |-> widget, index |-> index, before |-> before]

\* the answers of the generation service to the structure prompt: one
\* slide, two slides, a list whose first element is a number, and prose
ScreenCalls ==
  { Answer(Text(<<START, WS>> \o ListText(l) \o <<WS, END>>))
    : l \in { <<Obj2(Title("A"), Type("content_slide"))>>,
              <<Obj2(Title("A"), Type("content_slide")),
                Obj2(Title("A"), Type("image_slide"))>>,
              <<<<NUM(1)>>, Obj2(Title("A"), Type("content_slide")),
                Obj2(Title("B"), Type("content_slide"))>> } }
  \cup {Answer(Text(<<PROSE>>))}

\* what the user types or picks in a widget
Orders == 1..MaxEdited
EditTitles == {"B"}
EditTypes == {"image_slide"}

\* app.py, lines 27-44 and 78-79: the input screen is shown
InitScreen ==
  /\ pc = "screen"
  /\ response_text = Text(<<>>)
  /\ nparts = 0
  /\ parsed_json = NotCalled
  /\ BatchIdle
  /\ CallIdle

Waiting(stage) == pc = "screen" /\ session.stage = stage

\* input_screen.py, lines 30-45
RequestStructure ==
  /\ Waiting("input")
  /\ \E call \in ScreenCalls :
     \E g \in {generate_slide_structure(call, debug_slide_structure)} :
       /\ session' = [session EXCEPT !.stage = "structure",
                                      !.edited_structure = g.ret]
       /\ debug_slide_structure' = g.debug
  /\ args' = Event("input_screen", "generate_structure", 0, <<>>)
  /\ UNCHANGED <<pc, response_text, nparts, parsed_json, result, prs_slides,
                 deck_pos, download>>
  /\ UNCHANGED <<slide_structure, slide_contents, prompts, groq_calls,
                 image_calls, returned, generated, report>>

\* the variables no run of the structure screen touches
ScreenFrame ==
  /\ UNCHANGED <<response_text, nparts, parsed_json, result, prs_slides,
                 deck_pos, download>>
  /\ UNCHANGED batchVars

\* structure_screen.py, lines 10-15 and 142-144
BackToInput ==
  /\ Waiting("structure")
  /\ session' = [session EXCEPT !.stage = "input"]
  /\ args' = Event("slidestructure_screen", "back", 0, session.edited_structure)
  /\ UNCHANGED pc
  /\ ScreenFrame

\* lines 30-118: the user changes one widget of slide i, and the run that
\* follows stores the edits sorted and numbered again
EditSlide ==
  /\ Waiting("structure")
  /\ \E i \in DOMAIN session.edited_structure :
     \E shown \in {Widgets(session.edited_structure)} :
     \E edit \in { [shown[i] EXCEPT !.slide_number = o] : o \in Orders }
                 \cup { [shown[i] EXCEPT !.slide_title = t] : t \in EditTitles }
                 \cup { [shown[i] EXCEPT !.slide_type = t] : t \in EditTypes } :
       /\ edit # shown[i]
       /\ session' = [session EXCEPT !.edited_structure =
                        Renumbered([shown EXCEPT ![i] = edit])]
       /\ args' = Event("slidestructure_screen", "edit", i - 1,
                        session.edited_structure)
  /\ UNCHANGED pc
  /\ ScreenFrame

\* lines 69-73: the click on Remove of slide i marks the index and reruns
\* at once, which ends the run before lines 92-101; the set is a local of
\* the run, and the run that follows starts with an empty one and goes
\* through lines 104-118
RemoveClick ==
  /\ Waiting("structure")
  /\ \E i \in DOMAIN session.edited_structure :
       args' = Event("slidestructure_screen", "remove", i - 1,
                     session.edited_structure)
  /\ session' = [session EXCEPT !.edited_structure =
                   Renumbered(Widgets(session.edited_structure))]
  /\ UNCHANGED pc
  /\ ScreenFrame

\* lines 104-137: Add New Slide, after the edits of the run were stored,
\* and the run that follows
AddSlide ==
  /\ Waiting("structure")
  /\ session.edited_structure # <<>>
  /\ Len(session.edited_structure) < MaxEdited
  /\ \E stored \in {Renumbered(Widgets(session.edited_structure))} :
       session' = [session EXCEPT !.edited_structure =
                     Renumbered(Widgets(Append(stored, NewSlide(stored))))]
  /\ args' = Event("slidestructure_screen", "add", 0, session.edited_structure)
  /\ UNCHANGED pc
  /\ ScreenFrame

\* lines 104-118 and 148-162: Generate Content, up to the call of
\* create_slides_with_content, which takes the topic and not the structure
ClickGenerate ==
  /\ Waiting("structure")
  /\ session.edited_structure # <<>>
  /\ \E stored \in {Renumbered(Widgets(session.edited_structure))} :
       /\ session' = [session EXCEPT !.edited_structure = stored]
       /\ args' = Event("slidestructure_screen", "generate", 0, stored)
  /\ pc' = "start"
  /\ response_text' = Text(<<>>)
  /\ parsed_json' = NotCalled
  /\ slide_structure' = <<>>
  /\ debug_slide_structure' = Unset
  /\ slide_contents' = <<>>
  /\ prompts' = <<>>
  /\ groq_calls' = 0
  /\ image_calls' = 0
  /\ returned' = NothingReturned
  /\ generated' = <<>>
  /\ report' = NoReport
  /\ UNCHANGED <<nparts, result, prs_slides, deck_pos, download>>

GenerateFromTopic == GenerateStructureFrom(ScreenCalls)

\* lines 170-179: the pair is stored and the content screen comes next
StoreContents ==
  /\ pc = "returned"
  /\ session.stage = "structure"
  /\ ~Incomplete(returned.structure, returned.contents)
  /\ session' = AcceptContents(session, returned.structure, returned.contents)
  /\ pc' = "screen"
  /\ UNCHANGED args
  /\ ScreenFrame

\* the locals of create_slides_with_content and of the handler that called
\* it are gone when the next run starts
LocalsGone ==
  /\ response_text' = Text(<<>>)
  /\ parsed_json' = NotCalled
  /\ slide_structure' = <<>>
  /\ slide_contents' = <<>>
  /\ prompts' = <<>>
  /\ groq_calls' = 0
  /\ image_calls' = 0
  /\ returned' = NothingReturned
  /\ generated' = <<>>
  /\ report' = NoReport
  /\ UNCHANGED <<debug_slide_structure, nparts, result, prs_slides, deck_pos,
                 download>>

\* lines 170-171: the error message, and the screen stays
RejectContents ==
  /\ pc = "returned"
  /\ session.stage = "structure"
  /\ Incomplete(returned.structure, returned.contents)
  /\ pc' = "screen"
  /\ UNCHANGED <<args, session>>
  /\ LocalsGone

NextScreen ==
  \/ RequestStructure \/ BackToInput \/ EditSlide \/ RemoveClick \/ AddSlide
  \/ ClickGenerate \/ GenerateFromTopic \/ GenerateContent
  \/ StoreContents \/ RejectContents

SpecScreen == InitScreen /\ [][NextScreen]_vars

\* ------------------------------------------------- claims on the extractor
Extracted == pc = "extracted"
answer == response_text.toks
IsContainer(v) == IsDict(v) \/ IsList(v)

\* no strategy finds a candidate, or the candidate fails both parses
NoParseableStructure ==
  \/ ~response_text.isStr
  \/ Candidate(answer) = <<>>
  \/ ~Loads(Candidate(answer), TRUE).ok /\ ~Loads(Candidate(answer), FALSE).ok

\* C1: parse_json_from_response never raises, whatever it is given, and
\* gives the empty mapping when the answer holds no parseable structure.
C1_NeverRaises ==
  Extracted =>
    /\ ~parsed_json.raised
    /\ NoParseableStructure => parsed_json.val = EmptyDict

\* the blocks START OF JSON <J> END OF JSON of the answer
Blocks ==
  { ab \in (1..Len(answer)) \X (1..Len(answer)) :
      ab[1] < ab[2] /\ answer[ab[1]] = START /\ answer[ab[2]] = END }
Interior(ab) == Strip(SubSeq(answer, ab[1] + 1, ab[2] - 1))
WellFormed(t) == Loads(t, TRUE).ok
ValueOf(t) == Loads(t, TRUE).val

\* C2 as stated: every block whose interior is well-formed JSON is what the
\* extractor returns, whatever text is around the block.
C2_AnyBlockReturned ==
  Extracted /\ response_text.isStr =>
    \A ab \in Blocks :
      WellFormed(Interior(ab)) => parsed_json = Returned(ValueOf(Interior(ab)))

\* the block from the first START marker to the nearest END marker after it
FirstBlock(ab) ==
  /\ ab \in Blocks
  /\ \A n \in 1..(ab[1] - 1) : answer[n] # START
  /\ \A n \in (ab[1] + 1)..(ab[2] - 1) : answer[n] # END

\* C2 amended: when the text between the first START OF JSON marker and the
\* nearest END OF JSON marker after it is a well-formed JSON object or
\* array, the extractor returns exactly that value, whatever text is
\* before the first marker or after that END marker.
C2_FirstBlockReturned ==
  Extracted /\ response_text.isStr =>
    \A ab \in Blocks :
      FirstBlock(ab) /\ WellFormed(Interior(ab))
        /\ IsContainer(ValueOf(Interior(ab)))
      => parsed_json = Returned(ValueOf(Interior(ab)))

\* prose, then a block holding {"a": 1}
C2_Witness ==
  /\ Extracted
  /\ answer = <<PROSE, START>> \o ObjLit \o <<END>>
  /\ parsed_json = Returned(JDict(<<"a">>, <<JNum(1)>>))

HasMarkers == \E n \in 1..Len(answer) : answer[n] \in {START, END}
LeadingBracket == Strip(answer) # <<>> /\ Strip(answer)[1] \in {LB, LK}

\* C3: without markers, an answer whose trimmed form starts with { or [ is
\* parsed whole: the result is the value of the trimmed answer (the empty
\* mapping when that text does not parse).
C3_WholeResponse ==
  Extracted /\ response_text.isStr /\ ~HasMarkers /\ LeadingBracket =>
    parsed_json =
      Returned(IF WellFormed(Strip(answer)) THEN ValueOf(Strip(answer))
               ELSE IF Loads(Strip(answer), FALSE).ok
                    THEN Loads(Strip(answer), FALSE).val
               ELSE EmptyDict)

\* white space, then an array holding an object: the array is returned
C3_Witness ==
  /\ Extracted
  /\ answer = <<WS, LK>> \o ObjLit \o <<RK>>
  /\ parsed_json = Returned(JList(<<JDict(<<"a">>, <<JNum(1)>>)>>))

\* the well-formed spans of the answer that open with the bracket open
Spans(open) ==
  { ab \in (1..Len(answer)) \X (1..Len(answer)) :
      /\ ab[1] < ab[2]
      /\ answer[ab[1]] = open
      /\ WellFormed(SubSeq(answer, ab[1], ab[2])) }
FirstSpan(open) ==
  CHOOSE ab \in Spans(open) : \A cd \in Spans(open) : ab[1] <= cd[1]
SpanValue(ab) == ValueOf(SubSeq(answer, ab[1], ab[2]))

\* C4: without markers and without a leading bracket, an answer holding a
\* well-formed {...} span gives the value of the first such span, and one
\* holding only a well-formed [...] span gives the value of that span.
C4_EmbeddedSpan ==
  Extracted /\ response_text.isStr /\ ~HasMarkers /\ ~LeadingBracket =>
    /\ Spans(LB) # {} => parsed_json = Returned(SpanValue(FirstSpan(LB)))
    /\ Spans(LB) = {} /\ Spans(LK) # {} =>
         parsed_json = Returned(SpanValue(FirstSpan(LK)))

\* C5: what the extractor returns is a mapping or a list; a block whose
\* interior parses to a scalar or to null gives the empty mapping.
C5_ContainerOnly ==
  Extracted /\ ~parsed_json.raised =>
    /\ IsContainer(parsed_json.val)
    /\ \A ab \in Blocks :
         FirstBlock(ab) /\ WellFormed(Interior(ab))
           /\ ~IsContainer(ValueOf(Interior(ab)))
         => parsed_json.val = EmptyDict

\* a block whose interior is null
C5_Witness ==
  /\ Extracted
  /\ answer = <<START, WS, NULL, END>>
  /\ parsed_json = Returned(EmptyDict)

\* the text a strategy selects, in the order of lines 61-77: the interior of
\* the first block, else the whole trimmed answer when it opens with a
\* bracket, else the span from the first { to the last }
Braces == { ab \in (1..Len(answer)) \X (1..Len(answer)) :
             /\ ab[1] < ab[2]
             /\ answer[ab[1]] = LB /\ answer[ab[2]] = RB
             /\ \A n \in 1..(ab[1] - 1) : answer[n] # LB
             /\ \A n \in (ab[2] + 1)..Len(answer) : answer[n] # RB }
Selected ==
  IF Blocks # {} THEN Interior(CHOOSE ab \in Blocks : FirstBlock(ab))
  ELSE IF LeadingBracket THEN Strip(answer)
  ELSE LET ab == CHOOSE ab \in Braces : TRUE
       IN Strip(SubSeq(answer, ab[1], ab[2]))
Unparseable(t) == t = <<>> \/ (~Loads(t, TRUE).ok /\ ~Loads(t, FALSE).ok)

\* C29: the strategies of parse_json_from_response exclude one another: once
\* an earlier strategy has selected a text, an empty interior or a parse
\* failure gives the empty mapping and no later strategy is tried, even if
\* it would succeed.
C29_NoLaterStrategy ==
  ( /\ Extracted /\ response_text.isStr
    /\ Blocks # {} \/ LeadingBracket \/ Braces # {} )
  => /\ Unparseable(Selected) => parsed_json = Returned(EmptyDict)
     /\ ~Unparseable(Selected) /\ WellFormed(Selected) /\ IsContainer(ValueOf(Selected))
        => parsed_json = Returned(ValueOf(Selected))

\* a block whose interior is prose, then {"a": 1}, which the third strategy
\* would have found
C29_Witness ==
  /\ Extracted
  /\ answer = <<START, PROSE, END>> \o ObjLit
  /\ Unparseable(Selected)
  /\ WellFormed(ObjLit)
  /\ parsed_json = Returned(EmptyDict)

\* ------------------------------------------------------ claims on the batch
StructureDone == pc # "start"

\* the list the extractor gave for the structure answer, <<>> when it gave
\* no list
ExtractedList ==
  IF ~parsed_json.raised /\ IsList(parsed_json.val)
  THEN parsed_json.val.elems ELSE <<>>

\* the elements of the extracted list that are descriptors, in order
ValidElements == SelectSeq(ExtractedList, IsSlide)

\* C6: every descriptor at 0-based index k of the structure returned by
\* generate_slide_structure has slide_number k + 1, also when elements of
\* the list were dropped.
C6_SequentialNumbers ==
  \A k \in 1..Len(slide_structure) :
    Field(slide_structure[k], "slide_number") = JNum(k)

\* C7: every descriptor returned has one of the five slide types, and an
\* element whose slide_type is not one of the five is kept, with type
\* content_slide, not dropped.
C7_TypesCoerced ==
  StructureDone =>
    /\ \A k \in 1..Len(slide_structure) :
         ValidType(Field(slide_structure[k], "slide_type"))
    /\ \A e \in 1..Len(ValidElements) :
         ~ValidType(Field(ValidElements[e], "slide_type")) =>
           \E k \in 1..Len(slide_structure) :
             /\ Field(slide_structure[k], "slide_title")
                  = Field(ValidElements[e], "slide_title")
             /\ Field(slide_structure[k], "slide_type") = JStr("content_slide")

\* a descriptor without the two fields the generator rewrites
Rest(slide) == Put(Put(slide, "slide_type", JNull), "slide_number", JNull)

\* C8: the structure returned is the extracted list's elements that are
\* mappings with slide_title and slide_type, in their order, and nothing
\* else.
C8_ValidSubsequence ==
  StructureDone =>
    /\ Len(slide_structure) = Len(ValidElements)
    /\ \A k \in 1..Len(slide_structure) :
         Rest(slide_structure[k]) = Rest(ValidElements[k])

\* C9: when the extractor gives no non-empty list (or the structure call
\* fails) the structure is empty, and with an empty structure the batch
\* returns ([], []) without a content call or an image call.
C9_HardStop ==
  StructureDone =>
    /\ ~NonEmptyList(parsed_json) => slide_structure = <<>>
    /\ slide_structure = <<>> =>
         /\ pc = "returned"
         /\ returned = NothingReturned
         /\ prompts = <<>>
         /\ groq_calls = 1
         /\ image_calls = 0

\* the answer was a single descriptor, not a list
C9_Witness ==
  /\ pc = "returned"
  /\ IsDict(parsed_json.val) /\ IsSlide(parsed_json.val)
  /\ returned = NothingReturned
  /\ groq_calls = 1

\* the descriptor after position k has the title of the one at k and is an
\* image slide
FollowedByItsImage(k) ==
  /\ k < Len(slide_structure)
  /\ Field(slide_structure[k + 1], "slide_title")
       = Field(slide_structure[k], "slide_title")
  /\ Field(slide_structure[k + 1], "slide_type") = JStr("image_slide")

\* C10: the prompt of a content_slide descriptor has the lead-in framing
\* exactly when the descriptor right after it in the structure has the same
\* title and is an image slide.
C10_LeadInIffNextIsImage ==
  \A k \in 1..Len(prompts) :
    Field(slide_structure[k], "slide_type") = JStr("content_slide") =>
      (prompts[k].lead_in <=> FollowedByItsImage(k))


\* ----------------------------------- claims on generate_slide_content
ContentDone == pc = "done" /\ args.f = "generate_slide_content"

\* the call went past lines 248-251 and the generation service answered
Answered ==
  /\ ContentDone
  /\ ~init_groq_client_if_needed(args.groq_client, args.api_key).raised
  /\ IsDict(args.slide_info)
  /\ ~args.call.raised

\* what the extractor gave for the answer
extracted == parse_json_from_response(args.call.text)

slide_type == Get(args.slide_info, "slide_type", JStr("content_slide"))

\* C11: when the extractor yields something that is no mapping, or an empty
\* mapping, for the content answer, generate_slide_content returns the
\* sentinel (main_content ["Error: Could not generate content."],
\* needs_image false, error set) and the resolver is not called.
C11_SentinelOnNonMapping ==
  (Answered /\ ~extracted.raised
     /\ (~IsDict(extracted.val) \/ extracted.val = EmptyDict))
  => /\ ~result.raised
     /\ result.content = ErrorSentinel
     /\ Field(result.content, "main_content")
          = JList(<<JStr("Error: Could not generate content.")>>)
     /\ Field(result.content, "needs_image") = JBool("false")
     /\ HasKey(result.content, "error")
     /\ ~HasKey(result.content, "image_url")
     /\ result.images = 0
     /\ image_calls = 0

\* a list came back for an image slide, and the sentinel was returned
C11_Witness ==
  /\ Answered
  /\ ~extracted.raised
  /\ IsList(extracted.val)
  /\ slide_type = JStr("image_slide")
  /\ result.content = ErrorSentinel

\* C12: no failure while generating the content of a slide (client that
\* cannot be initialised, raising call, unparseable answer, malformed
\* descriptor) raises out of generate_slide_content: a payload with an
\* error field comes back.
C12_NeverRaisesOut ==
  ContentDone => /\ ~result.raised
                 /\ (\/ ~Answered
                     \/ extracted.raised
                     \/ ~IsDict(extracted.val)
                     \/ extracted.val = EmptyDict)
                      => HasKey(result.content, "error")

\* C13: for an image_slide whose extracted payload has needs_image true the
\* resolver is called exactly once and the payload returned is the extracted
\* one with image_url set to the resolver's result; for every other type of
\* slide the resolver is not called and the payload gets no image_url.
C13_ResolverOnImageSlides ==
  (Answered /\ ~extracted.raised)
  => /\ (slide_type = JStr("image_slide") /\ IsDict(extracted.val)
           /\ Field(extracted.val, "needs_image") = JBool("true"))
        => /\ result.images = 1
           /\ image_calls = 1
           /\ result.content
                = Put(extracted.val, "image_url",
                      generate_pollinations_image(
                        Get(extracted.val, "image_description",
                            JStr("Illustration for <slide_title>"))))
           /\ Field(result.content, "image_url")
                \in {placeholder_image_url, pollinations_image_url}
     /\ slide_type # JStr("image_slide")
        => /\ result.images = 0
           /\ image_calls = 0
           /\ result.content = Checked(extracted.val)
           /\ HasKey(result.content, "image_url")
                => (IsDict(extracted.val) /\ HasKey(extracted.val, "image_url"))

\* an image slide got its image_url, from a payload that asked for one
C13_Witness ==
  /\ Answered
  /\ ~extracted.raised
  /\ slide_type = JStr("image_slide")
  /\ IsDict(extracted.val)
  /\ Field(extracted.val, "needs_image") = JBool("true")
  /\ image_calls = 1
  /\ Field(result.content, "image_url") = pollinations_image_url


\* ------------------------------ claims on generate_pollinations_image
ImageDone == pc = "done" /\ args.f = "generate_pollinations_image"

IsText(v) == v.tag = "str"

\* the first n characters of a text followed by "..."
Cut(chars, n) ==
  [i \in 1..(n + 3) |-> IF i <= n THEN chars[i] ELSE "."]

\* the part of the reference that stands for the description: what follows
\* the base and the five words of "Educational illustration: "
DescriptionPart(url, n) == SubSeq(url, 7, 6 + n)

\* C14: generate_pollinations_image cuts a description of more than 300
\* characters to its first 300 followed by "...", and leaves one of at most
\* 300 as it is, before the prompt is composed and percent-encoded.
C14_TruncatedAt300 ==
  (ImageDone /\ IsText(args.description))
  => LET chars == args.description.items
         kept == IF Len(chars) > 300 THEN Cut(chars, 300) ELSE chars
     IN /\ ~result.raised
        /\ DescriptionPart(result.url, Len(kept)) = quote(kept)
        /\ result.url = pollinations_base_url
                        \o quote(image_prompt(kept, args.context.items))
                        \o Query(args.now)

\* a description of 301 characters was cut
C14_Witness ==
  /\ ImageDone
  /\ IsText(args.description)
  /\ Len(args.description.items) = 301
  /\ DescriptionPart(result.url, 303) = quote(Cut(args.description.items, 300))

\* does the text occur in the reference, piece by piece
Contains(url, text) ==
  \E k \in 0..(Len(url) - Len(text)) :
    \A j \in 1..Len(text) : url[k + j] = text[j]

\* C15 as stated: for every description and context, a null or non-text
\* description included, the reference returned contains the text
\* width=1024&height=576&nologo=true.
C15_SizeAndNoLogoText ==
  ImageDone
  => Contains(result.url, <<"width=1024", "&", "height=576", "&", "nologo=true">>)

\* C15: for every description the reference can be built from (a text, or
\* a list of at most 300 elements) the reference ends with
\* ?width=1024&height=576&seed=<time>&nologo=true, the seed standing
\* between height and nologo; for every other description the placeholder
\* is returned, which carries none of these parameters.
C15_QueryWithSeed ==
  ImageDone
  => IF BuildUrl(args.description, args.context, args.now).raised
     THEN /\ result.url = PlaceholderUrl
          /\ \A i \in DOMAIN result.url :
               result.url[i] \notin {"width=1024", "height=576", "nologo=true"}
     ELSE /\ Len(result.url) > 9
          /\ SubSeq(result.url, Len(result.url) - 8, Len(result.url))
               = <<"?", "width=1024", "&", "height=576", "&", "seed=",
                   args.now, "&", "nologo=true">>
          /\ Contains(result.url, <<"width=1024", "&", "height=576">>)
          /\ Contains(result.url, <<"&", "nologo=true">>)

\* a text that itself holds & got its reference
C15_Witness ==
  /\ ImageDone
  /\ IsText(args.description)
  /\ Len(args.description.items) > 0
  /\ args.description.items[1] = "&"
  /\ result.url[Len(result.url)] = "nologo=true"

\* C16: generate_pollinations_image never raises; when building the
\* reference raises, the constant placeholder is returned.
C16_PlaceholderOnException ==
  ImageDone
  => /\ ~result.raised
     /\ BuildUrl(args.description, args.context, args.now).raised
        => result.url = PlaceholderUrl

\* a description without len() gave the placeholder
C16_Witness ==
  /\ ImageDone
  /\ args.description.tag = "null"
  /\ ~result.raised
  /\ result.url = PlaceholderUrl



\* ---------------------------------------------- claims on create_powerpoint
InDeck == args.f = "create_powerpoint"
DeckSaved == InDeck /\ pc = "saved"

\* the positions create_powerpoint goes through
Positions == 1..num_slides_to_create(args.structure, args.contents)

Present(content) == content \notin {JNull, EmptyDict}
CarriesError(content) == Present(content) /\ HasKey(content, "error")

SectionOf(i) == { k \in DOMAIN prs_slides : prs_slides[k].pos = i }

\* C17: create_powerpoint emits no section for a payload that carries an
\* error field, whatever the value of that field, and the number of sections
\* is the number of payloads without an error field among the first
\* min(len(structure), len(contents)) positions.
C17_ErrorPayloadsSkipped ==
  DeckSaved
  => /\ \A i \in Positions :
          CarriesError(args.contents[i]) => SectionOf(i) = {}
     /\ Len(prs_slides)
          = Cardinality({ i \in Positions :
                            /\ Present(args.contents[i])
                            /\ ~HasKey(args.contents[i], "error") })

IsImageSlide(i) ==
  Get(args.structure[i], "slide_type", JStr("content_slide")) = JStr("image_slide")

\* the caption box of half an inch ends above the bottom edge of the canvas
BoxAboveBottom == cap_top + Inches(50) < slide_height

\* C18: on an image_slide whose image was placed, the joined and trimmed
\* main_content is put as a caption just below the image whenever it is not
\* empty, does not begin with "Error", and the caption box ends above the
\* bottom edge of the canvas.
C18_CaptionBelowImage ==
  InDeck
  => \A k \in DOMAIN prs_slides :
       LET main_content ==
             Get(args.contents[prs_slides[k].pos], "main_content", JList(<<>>))
       IN (/\ IsImageSlide(prs_slides[k].pos)
           /\ prs_slides[k].image
           /\ ~JoinRaises(main_content)
           /\ CaptionLines(main_content) # <<>>
           /\ CaptionLines(main_content)[1] \notin ErrorTexts
           /\ BoxAboveBottom)
          => prs_slides[k].caption

FailureNotices ==
  { "(Error adding visual: Timeout downloading image)",
    "(Error adding visual: Failed to download image)",
    "(Error adding visual: Failed to process or add image: Image download exceeded max size limit)",
    "(Error adding visual: Failed to process or add image: Image download resulted in empty content.)",
    "(Error adding visual: Failed to process or add image: <add_picture>)" }

\* C19: a failed fetch or placement of the image of an image_slide never
\* raises out of create_powerpoint: the slide keeps its section, which
\* carries a notice of the error, every position that is not skipped has
\* its section, and the document is returned with all of them.
C19_ImageFailureContained ==
  InDeck
  => /\ pc # "raised"
     /\ \A i \in 1..deck_pos :
          ~Skipped(args.contents[i])
          => /\ Cardinality(SectionOf(i)) = 1
             /\ \A k \in SectionOf(i) :
                  (/\ IsImageSlide(i)
                   /\ image_source(args.contents[i]) # "none"
                   /\ ~prs_slides[k].image)
                  => prs_slides[k].notice \in FailureNotices
     /\ pc = "saved"
        => /\ deck_pos = num_slides_to_create(args.structure, args.contents)
           /\ ~result.raised
           /\ result.slides = prs_slides

\* the download of a first image timed out, and a later slide is in the
\* document that was returned
C19_Witness ==
  /\ DeckSaved
  /\ ~result.raised
  /\ Len(result.slides) = 2
  /\ result.slides[1].notice = "(Error adding visual: Timeout downloading image)"
  /\ result.slides[2].pos = 2



\* ------------------------------------- claims on the batch and its result
BatchReturned == pc = "returned" /\ returned.structure # <<>>

\* C21: when create_slides_with_content returns for a structure answer that
\* is not empty, contents is as long as structure and contents[i] is the
\* payload that was generated for structure[i]: none is overwritten or lost.
C21_OnePayloadPerDescriptor ==
  BatchReturned
  => /\ Len(returned.contents) = Len(returned.structure)
     /\ \A i \in DOMAIN returned.structure :
          returned.contents[i] = generated[i]

\* the iteration that has just stored a payload, counted from 0
Stored == Len(generated') = Len(generated) + 1

SlideNumberAt(i) ==
  Get(slide_structure[i + 1], "slide_number", JNum(i + 1)).n

\* C22: every payload is stored at index slide_number - 1 of the result
\* array, and a payload whose descriptor has a slide_number outside
\* 1..len(structure) is appended to the array, not written at an index.
C22_OutOfRangeAppended ==
  [][ Stored =>
        LET i == Len(generated)
            content == generated'[i + 1]
        IN IF SlideNumberAt(i) \in 1..Len(slide_structure)
           THEN slide_contents' =
                  [slide_contents EXCEPT ![SlideNumberAt(i)] = content]
           ELSE slide_contents' = Append(slide_contents, content) ]_vars

IsErrorSentinel(content) == IsDict(content) /\ HasKey(content, "error")

\* C23: the batch reports full success only when each of the N payloads was
\* generated without error, and when a payload is an error sentinel the
\* count it reports is lower than N.
C23_SuccessMeansNoError ==
  BatchReturned
  => LET failed == { i \in DOMAIN generated : IsErrorSentinel(generated[i]) }
     IN /\ report.kind = "success" => failed = {}
        /\ failed # {} => report.count < Len(returned.structure)

\* C24: one structure call, then one content call for each descriptor in
\* increasing position order, each with its image resolution done before
\* the next; 1 + len(structure) generation calls when the batch returns.
C24_SequentialInOrder ==
  /\ pc = "start" => groq_calls = 0 /\ prompts = <<>> /\ image_calls = 0
  /\ pc # "start"
     => /\ groq_calls = 1 + Len(prompts)
        /\ Len(generated) = Len(prompts)
        /\ Len(prompts) <= Len(slide_structure)
        /\ \A k \in DOMAIN prompts :
             prompts[k] = BuildPrompt(slide_structure[k], debug_slide_structure)
        /\ image_calls =
             Cardinality({ k \in DOMAIN generated :
                            IsDict(generated[k])
                            /\ HasKey(generated[k], "image_url") })
  /\ pc = "returned" => groq_calls = 1 + Len(returned.structure)

\* a batch of three descriptors of different types returned, after four
\* generation calls and one resolver call
C24_Witness ==
  /\ pc = "returned"
  /\ Len(returned.structure) = 3
  /\ groq_calls = 4
  /\ image_calls = 1
  /\ prompts[1].template # prompts[3].template



\* ----------------------------------- claims on the layouts and the images
TypeAt(k) ==
  Get(args.structure[prs_slides[k].pos], "slide_type", JStr("content_slide"))

\* C25: create_powerpoint takes the blank layout for image_slide and the
\* title-and-content layout for every other type, title_slide and
\* unrecognized types included.
C25_BlankOrTitledContent ==
  InDeck
  => \A k \in DOMAIN prs_slides :
       prs_slides[k].layout = IF TypeAt(k) = JStr("image_slide") THEN 6 ELSE 1

\* C25, amended: the blank layout (6) for image_slide, the title layout (0)
\* for title_slide, the title-only layout (5) for title_only, and the
\* title-and-content layout (1) for every other type, unrecognized types
\* included.
C25_LayoutByType ==
  InDeck
  => \A k \in DOMAIN prs_slides :
       prs_slides[k].layout =
         CASE TypeAt(k) = JStr("image_slide") -> 6
           [] TypeAt(k) = JStr("title_slide") -> 0
           [] TypeAt(k) = JStr("title_only") -> 5
           [] OTHER -> 1

\* a document with a title slide on the title layout and a slide of an
\* unrecognized type on the title-and-content layout
C25_Witness ==
  /\ DeckSaved
  /\ Len(prs_slides) = 2
  /\ TypeAt(1) = JStr("title_slide") /\ prs_slides[1].layout = 0
  /\ TypeAt(2) = JStr("block_diagram_slide") /\ prs_slides[2].layout = 1

\* the picture of an image slide could not be fetched or placed
PictureMissing(k) ==
  /\ TypeAt(k) = JStr("image_slide")
  /\ image_source(args.contents[prs_slides[k].pos]) # "none"
  /\ ~prs_slides[k].image

\* C26: when the image of an image slide cannot be fetched or placed, the
\* section keeps its heading and the caption text of main_content, next to
\* the error notice.
C26_TextKeptOnImageFailure ==
  InDeck
  => \A k \in DOMAIN prs_slides :
       ( /\ PictureMissing(k)
         /\ WantsCaption(Get(args.contents[prs_slides[k].pos],
                             "main_content", JList(<<>>))) )
       => /\ prs_slides[k].heading
          /\ prs_slides[k].caption
          /\ prs_slides[k].notice \in FailureNotices



\* -------------------------------------------------- claims on the download
RECURSIVE BytesUpTo(_, _)
BytesUpTo(chunks, k) ==
  IF k = 0 THEN 0 ELSE BytesUpTo(chunks, k - 1) + chunks[k]

Fetching == args.f = "_add_image_to_slide"

\* the chunks whose arrival brings the body over 20 MB
Over == { k \in DOMAIN args.chunks : BytesUpTo(args.chunks, k) > 20 * 1024 * 1024 }

\* C27: the download fails on the first chunk that brings the cumulative
\* size over 20*1024*1024 bytes and does not buffer that chunk; a body of
\* exactly 20 MB is accepted, an empty body fails, and no picture is added
\* on these failures.
C27_CeilingChunkByChunk ==
  Fetching
  => LET total == BytesUpTo(args.chunks, Len(args.chunks))
         Oversize == "Failed to process or add image: Image download exceeded max size limit"
         Empty == "Failed to process or add image: Image download resulted in empty content."
     IN /\ download.nbytes <= 20 * 1024 * 1024
        /\ \A k \in Over : download.read <= k
        /\ pc = "download" => download.nbytes = BytesUpTo(args.chunks, download.read)
        /\ (pc = "failed" /\ result.message = Oversize)
           => /\ download.read \in Over
              /\ download.nbytes = BytesUpTo(args.chunks, download.read - 1)
              /\ ~result.picture
        /\ (pc \in {"added", "failed"} /\ Over # {})
           => result.raised /\ result.message = Oversize
        /\ (pc \in {"added", "failed"} /\ total = 0)
           => result.raised /\ result.message = Empty /\ ~result.picture
        /\ (pc \in {"added", "failed"} /\ total = 20 * 1024 * 1024 /\ args.picture)
           => result = ImageAdded
        /\ pc = "added" => total \in 1..(20 * 1024 * 1024)

\* two chunks made a body of exactly 20 MB, the third brought it over the
\* ceiling and was not buffered
C27_Witness ==
  /\ Fetching
  /\ pc = "failed"
  /\ download.read = 3
  /\ download.nbytes = 20 * 1024 * 1024
  /\ download.size > 20 * 1024 * 1024
  /\ ~result.picture



\* ------------------------------------------ claims on the structure screen
OnScreen == args.f = "slidestructure_screen"

\* titles and types of the descriptors, in order
Listed(structure) ==
  [ k \in DOMAIN structure |->
      << Get(structure[k], "slide_title", JStr("")),
         Get(structure[k], "slide_type", JStr("content_slide")) >> ]

Without(structure, i) ==
  [ k \in 1..(Len(structure) - 1) |->
      IF k < i THEN structure[k] ELSE structure[k + 1] ]

\* C28: after the click on Remove of slide i and the rerun it causes, the
\* edited structure has lost that descriptor and holds the others in the
\* order they had.
C28_RemoveRemoves ==
  (OnScreen /\ args.widget = "remove")
  => Listed(session.edited_structure)
       = Listed(Without(args.before, args.index + 1))

\* the batch the click on Generate Content started has returned and the
\* content screen is next
ContentShown ==
  /\ OnScreen /\ args.widget = "generate"
  /\ pc = "screen"
  /\ session.stage = "content"

FourSlides ==
  /\ Len(slide_structure) = 4
  /\ Field(slide_structure[1], "slide_type") = JStr("title_slide")
  /\ Field(slide_structure[2], "slide_type") = JStr("content_slide")
  /\ Field(slide_structure[3], "slide_type") = JStr("image_slide")
  /\ Field(slide_structure[4], "slide_type") = JStr("conclusion_slide")
  /\ Field(slide_structure[3], "slide_title") = Field(slide_structure[2], "slide_title")

NoErrorPayload ==
  \A i \in DOMAIN args.contents :
    IsDict(args.contents[i]) /\ ~HasKey(args.contents[i], "error")

\* C20: for a structure answer of four slides (title, content, image,
\* conclusion) whose image slide has the title of the content slide before
\* it, the prompt of slide 2 has the lead-in framing, and when no payload
\* carries an error the document that is assembled has exactly 4 sections.
C20_EndToEnd ==
  FourSlides
  => /\ Len(prompts) >= 2
        => /\ prompts[2].slide_number = 2
           /\ prompts[2].template = "content_slide"
           /\ prompts[2].lead_in
     /\ (DeckSaved /\ NoErrorPayload)
        => /\ Len(result.slides) = 4
           /\ \A k \in 1..4 : result.slides[k].pos = k

\* the four payloads came without an error and the document has four
\* sections, the third with its image
C20_Witness ==
  /\ FourSlides
  /\ DeckSaved
  /\ NoErrorPayload
  /\ prompts[2].lead_in
  /\ Len(result.slides) = 4
  /\ result.slides[3].image


====
